---- MODULE Spec2Model ----
(***************************************************************************)
(* Gesture slingshot: the interaction state machine of SlingshotCanvas,    *)
(* the gesture interpreter of HandController and the pure helpers of       *)
(* services/handTracking, as one state machine.                            *)
(*                                                                         *)
(* Units.  Screen coordinates are whole pixels.  Normalized landmark       *)
(* coordinates are thousandths (0.14 is 140).  Time is in milliseconds and *)
(* advances by the steps of Tick.  The pointer and landmark inputs are drawn *)
(* from sets whose pairwise distances are whole numbers, so Math.sqrt is   *)
(* exact on them.                                                           *)
(*                                                                         *)
(* React.  A function made by useCallback is represented by the values it  *)
(* captured at render time: [hand |-> isHandMode, assets |-> assetsLoaded]. *)
(* A state update, the render it causes, the commit (refs attached or      *)
(* detached) and the effects it triggers are one atomic step.              *)
(***************************************************************************)
EXTENDS Integers, Sequences, FiniteSets, Bags, TLC

\* ------------------------------------------------------------------ bounds
\* the clock stops advancing at MaxTime milliseconds
MaxTime == 160
\* no new drag session is opened while MaxParticles particles are in flight
MaxParticles == 3
\* the clock of particle flights stops advancing at MaxFlight milliseconds
\* landmark sets fed to isPinching in one sequence
MaxFrames == 4
\* calls of createHandLandmarker
MaxCalls == 4
MaxFlight == 3000

\* the clock advances in steps of 160 ms (Spec) or of 20 ms (SpecGesture)
CoarseTicks == { 160 }
FineTicks == { 20 }
FlightTicks == { 500 }

\* ------------------------------------------------------- program constants
START_THRESHOLD == 140
RELEASE_THRESHOLD == 180
GRACE_MS == 140
RELEASE_DEBOUNCE_MS == 80
MIN_PARTICLES == 3
MAX_PARTICLES == 40
DEAD_ZONE == 30
\* the vertical tween of a particle lasts 1 + Math.random() seconds
FLIGHT_MIN_MS == 1000
FLIGHT_MAX_MS == 2000

\* null / undefined of an object-valued slot is the empty sequence, a value v
\* is <<v>>
None == << >>
Some(v) == << v >>

\* ------------------------------------------------------------ input domains
\* window.innerWidth / window.innerHeight
Viewport == [innerWidth |-> 1000, innerHeight |-> 1000]

\* pointer positions (e.x, e.y): points of the line through (0,0) with
\* direction (3,4)/5, at 0, 25, 60, 130 and 630 pixels from (0,0), so every
\* pairwise distance is a whole number (0, 25, 35, 60, 70, 105, 130, 500, ...)
Points == { <<0, 0>>, <<15, 20>>, <<36, 48>>, <<78, 104>>, <<378, 504>> }
\* the pointer positions of Spec
FewPoints == { <<0, 0>>, <<78, 104>> }

\* index-finger tips (landmark 8), thousandths of the frame; with the viewport
\* above their cursors are (78,104) and (0,0)
IndexTips == { <<922, 104>>, <<1000, 0>> }

\* thumb tip (landmark 4) relative to the index tip: distances 0, 139, 140
\* (84-112-140 triangle), 179 and 180 (108-144-180 triangle)
PinchOffsets == { <<0, 0>>, <<139, 0>>, <<84, 112>>, <<179, 0>>, <<108, 144>> }

\* a landmark set, reduced to the two landmarks the code reads
Hand(t, o) == [i \in {4, 8} |-> IF i = 8 THEN t ELSE <<t[1] - o[1], t[2] + o[2]>>]

\* HandLandmarkerResult.landmarks: no hand, or one hand (numHands: 1)
Detections == { << >> } \cup { << Hand(t, o) >> : t \in IndexTips, o \in PinchOffsets }
\* the detections of Spec: no hand, a closed pinch, an open hand
FewDetections == { << >>, << Hand(<<922, 104>>, <<0, 0>>) >>,
                   << Hand(<<922, 104>>, <<108, 144>>) >> }

\* ------------------------------------------------------------ pure helpers
Abs(a) == IF a < 0 THEN 0 - a ELSE a

\* Math.sqrt(a * a + b * b) on the inputs above, where it is a whole number
Hypot(a, b) ==
    CHOOSE r \in (IF Abs(a) > Abs(b) THEN Abs(a) ELSE Abs(b))..(Abs(a) + Abs(b)) :
        r * r = a * a + b * b

RECURSIVE Gcd(_, _)
Gcd(a, b) == IF b = 0 THEN a ELSE Gcd(b, a % b)

\* Math.atan2(dy, dx): the angle of the vector (dx, dy), represented by the
\* shortest whole vector of that direction; Math.atan2(0, 0) is 0, the angle
\* of (1, 0)
Atan2(dy, dx) ==
    IF dx = 0 /\ dy = 0 THEN << 1, 0 >>
    ELSE << dx \div Gcd(Abs(dx), Abs(dy)), dy \div Gcd(Abs(dx), Abs(dy)) >>

getDistance(p1, p2) ==
    LET a == p1[1] - p2[1]
        b == p1[2] - p2[2]
    IN  Hypot(a, b)

\* mutant: no hysteresis, the start threshold decides alone
isPinching_noHysteresis(landmarks, wasPinching) ==
    IF landmarks = << >> THEN FALSE
    ELSE getDistance(landmarks[4], landmarks[8]) < START_THRESHOLD

\* mutant: the two thresholds are exchanged
isPinching_swappedThresholds(landmarks, wasPinching) ==
    IF landmarks = << >> THEN FALSE
    ELSE IF wasPinching
         THEN getDistance(landmarks[4], landmarks[8]) < START_THRESHOLD
         ELSE getDistance(landmarks[4], landmarks[8]) < RELEASE_THRESHOLD

isPinching(landmarks, wasPinching) ==
    IF landmarks = << >> THEN FALSE
    ELSE LET thumbTip == landmarks[4]
             indexTip == landmarks[8]
             distance == getDistance(thumbTip, indexTip)
         IN  IF wasPinching THEN distance < RELEASE_THRESHOLD
                            ELSE distance < START_THRESHOLD

\* mutant: the x axis is not mirrored
getCursorPosition_unmirrored(landmarks, screenWidth, screenHeight) ==
    IF landmarks = << >> THEN [x |-> 0, y |-> 0]
    ELSE [x |-> (landmarks[8][1] * screenWidth) \div 1000,
          y |-> (landmarks[8][2] * screenHeight) \div 1000]

getCursorPosition(landmarks, screenWidth, screenHeight) ==
    IF landmarks = << >> THEN [x |-> 0, y |-> 0]
    ELSE LET indexTip == landmarks[8]
         IN  [x |-> ((1000 - indexTip[1]) * screenWidth) \div 1000,
              y |-> (indexTip[2] * screenHeight) \div 1000]

\* gsap.utils.clamp(min, max, value)
clamp(min, max, value) ==
    IF value < min THEN min ELSE IF value > max THEN max ELSE value

\* Math.round of a value given in tenths (halves round up)
MathRoundTenths(v) == (v + 5) \div 10

\* mutant: the count saturates at distance / 10 = 50
particleCount_saturatesAt50(distance) ==
    MathRoundTenths(clamp(MIN_PARTICLES * 10, 500, distance))

\* createExplosion, line 127: Math.round(gsap.utils.clamp(3, 40, distance / 10))
particleCount(distance) ==
    MathRoundTenths(clamp(MIN_PARTICLES * 10, MAX_PARTICLES * 10, distance))

\* ------------------------------------------------------------------- state
VARIABLES
    now,                        \* performance.now(), ms
    isHandMode,                 \* SlingshotCanvas useState
    assetsLoaded,               \* SlingshotCanvas useState
    imageKeys,                  \* state.current.imageKeys
    explosionKeys,              \* state.current.explosionKeys
    state,                      \* state.current: the drag session
    svg,                        \* number of children of canvasRef (the <svg>)
    particles,                  \* the particle <img> in containerRef: a bag of
                                \* the times at which they were spawned
    releaseTimeoutRef,          \* releaseTimeoutRef.current, 0 for null
    timers,                     \* pending window.setTimeout callbacks
    observer,                   \* the gsap Observer of the mouse effect, or None
    videoRef,                   \* videoRef.current: the mounted <video>, or None
    detached,                   \* loadeddata listeners of unmounted <video>s
                                \* that still hold a stream and have not loaded
    requestRef,                 \* requestRef.current, 0 for undefined
    rafs,                       \* pending requestAnimationFrame callbacks
    isRequestingPermissionRef,  \* isRequestingPermissionRef.current
    loadedDataHandlerRef,       \* loadedDataHandlerRef.current
    handStateRef,               \* handStateRef.current: the pinch state
    permissionError,            \* HandController useState (set or not)
    req,                        \* the requestCameraAccess call in flight
    handLandmarker,             \* handTracking.ts module variable: the
                                \* instance, 0 for undefined
    handLandmarkerPromise,      \* handTracking.ts module variable, or None
    creations,                  \* the promises made at lines 14-31
    calls,                      \* the calls of createHandLandmarker
    last                        \* what the last step did (history)

landmarkerVars == << handLandmarker, handLandmarkerPromise, creations, calls >>
canvasVars == << isHandMode, assetsLoaded, imageKeys, explosionKeys, state, svg,
                 particles, releaseTimeoutRef, timers, observer >>
handVars == << videoRef, detached, requestRef, rafs, isRequestingPermissionRef,
               loadedDataHandlerRef, handStateRef, permissionError, req,
               landmarkerVars >>
vars == << now, canvasVars, handVars, last >>

\* the functions useCallback made in the current render
Cur == [hand |-> isHandMode, assets |-> assetsLoaded]

\* handles of window.setTimeout / requestAnimationFrame are opaque positive
\* numbers: the smallest one that nothing holds stands for a fresh one
FreshId(used) == CHOOSE i \in 1..(Cardinality(used) + 1) : i \notin used

IdleState == [isDrawing |-> FALSE, startX |-> 0, startY |-> 0, lastDistance |-> 0,
              currentLine |-> None, startImage |-> None, circle |-> None]

\* ------------------------------------------------ SlingshotCanvas methods
\* The methods act on the mutable objects of SlingshotCanvas, gathered in a
\* record w: state.current, the <svg> children, the particle images, the
\* release timer and its ref, and the bursts spawned so far by the step (for
\* the record of the step).
World == [state |-> state, svg |-> svg, particles |-> particles,
          ref |-> releaseTimeoutRef, timers |-> timers, spawned |-> << >>]

createExplosion(w, x, y, distance) ==
    IF explosionKeys = {} THEN w
    ELSE LET count == particleCount(distance)
         IN  [w EXCEPT !.particles = @ (+) [t \in { now } |-> count],
                       !.spawned = Append(@, [x |-> x, y |-> y,
                                              distance |-> distance, count |-> count])]

\* mutant: the isDrawing test of line 179 is missing
startDrawing_noDrawingTest(w, x, y, assets) ==
    IF ~assets \/ imageKeys = {} THEN w
    ELSE [w EXCEPT
            !.state = [@ EXCEPT
                !.isDrawing = TRUE,
                !.startX = x,
                !.startY = y,
                !.currentLine = Some([x1 |-> x, y1 |-> y, x2 |-> x, y2 |-> y]),
                !.circle = Some([cx |-> x, cy |-> y, transform |-> None]),
                !.startImage = Some([x |-> x - 25, y |-> y - 25,
                                     transform |-> None])],
            !.svg = @ + 3]

\* mutant: the assetsLoaded and imageKeys tests of lines 181-182 are missing
startDrawing_noAssetsTest(w, x, y, assets) ==
    IF w.state.isDrawing THEN w
    ELSE [w EXCEPT
            !.state = [@ EXCEPT
                !.isDrawing = TRUE,
                !.startX = x,
                !.startY = y,
                !.currentLine = Some([x1 |-> x, y1 |-> y, x2 |-> x, y2 |-> y]),
                !.circle = Some([cx |-> x, cy |-> y, transform |-> None]),
                !.startImage = Some([x |-> x - 25, y |-> y - 25,
                                     transform |-> None])],
            !.svg = @ + 3]

startDrawing(w, x, y, assets) ==
    IF w.state.isDrawing \/ ~assets \/ imageKeys = {} THEN w
    ELSE [w EXCEPT
            !.state = [@ EXCEPT
                !.isDrawing = TRUE,
                !.startX = x,
                !.startY = y,
                !.currentLine = Some([x1 |-> x, y1 |-> y, x2 |-> x, y2 |-> y]),
                !.circle = Some([cx |-> x, cy |-> y, transform |-> None]),
                !.startImage = Some([x |-> x - 25, y |-> y - 25,
                                     transform |-> None])],
            !.svg = @ + 3]

\* mutant: the line end is moved from where the last update left it
updateDrawing_relative(w, x, y) ==
    IF ~w.state.isDrawing \/ w.state.currentLine = None
       \/ w.state.startImage = None \/ w.state.circle = None
    THEN w
    ELSE LET dx == x - w.state.startX
             dy == y - w.state.startY
             distance == Hypot(dx, dy)
             line == w.state.currentLine[1]
             transform == Some([scaleSq |-> clamp(100, 1000000, distance),
                                rotation |-> Atan2(dy, dx)])
         IN  [w EXCEPT
                !.state = [@ EXCEPT
                    !.currentLine = Some([line EXCEPT
                        !.x2 = IF distance < DEAD_ZONE THEN w.state.startX
                               ELSE @ + (dx * (distance - 30)) \div distance,
                        !.y2 = IF distance < DEAD_ZONE THEN w.state.startY
                               ELSE @ + (dy * (distance - 30)) \div distance]),
                    !.startImage = Some([w.state.startImage[1] EXCEPT
                                            !.transform = transform]),
                    !.circle = Some([w.state.circle[1] EXCEPT
                                            !.transform = transform]),
                    !.lastDistance = distance]]

\* mutant: the dead zone of lines 254-257 is missing
updateDrawing_noDeadZone(w, x, y) ==
    IF ~w.state.isDrawing \/ w.state.currentLine = None
       \/ w.state.startImage = None \/ w.state.circle = None
    THEN w
    ELSE LET dx == x - w.state.startX
             dy == y - w.state.startY
             distance == Hypot(dx, dy)
             safeDistance == IF distance = 0 THEN 1 ELSE distance
             transform == Some([scaleSq |-> clamp(100, 1000000, distance),
                                rotation |-> Atan2(dy, dx)])
         IN  [w EXCEPT
                !.state = [@ EXCEPT
                    !.currentLine = Some([w.state.currentLine[1] EXCEPT
                        !.x2 = w.state.startX + (dx * (distance - 30)) \div safeDistance,
                        !.y2 = w.state.startY + (dy * (distance - 30)) \div safeDistance]),
                    !.startImage = Some([w.state.startImage[1] EXCEPT
                                            !.transform = transform]),
                    !.circle = Some([w.state.circle[1] EXCEPT
                                            !.transform = transform]),
                    !.lastDistance = distance]]

updateDrawing(w, x, y) ==
    IF \/ ~w.state.isDrawing
       \/ w.state.currentLine = None
       \/ w.state.startImage = None
       \/ w.state.circle = None
    THEN w
    ELSE LET dx == x - w.state.startX
             dy == y - w.state.startY
             distance == Hypot(dx, dy)
             \* dx * shrink with shrink = (distance - 30) / distance; it is
             \* only used when distance >= 30, where safeDistance = distance
             x2 == IF distance < DEAD_ZONE THEN w.state.startX
                   ELSE w.state.startX + (dx * (distance - 30)) \div distance
             y2 == IF distance < DEAD_ZONE THEN w.state.startY
                   ELSE w.state.startY + (dy * (distance - 30)) \div distance
             angle == Atan2(dy, dx)
             \* lines 266-268: the scale, kept as its square in hundredths
             \* (clamp(1, 100, sqrt(distance / 100)) squared, times 100)
             clamped == clamp(100, 1000000, distance)
             \* lines 270-274: gsap.set of scale and rotation (angle - 45,
             \* counted modulo full turns, is given by angle)
             transform == Some([scaleSq |-> clamped, rotation |-> angle])
         IN  [w EXCEPT
                !.state = [@ EXCEPT
                    !.currentLine = Some([w.state.currentLine[1] EXCEPT
                                            !.x2 = x2, !.y2 = y2]),
                    !.startImage = Some([w.state.startImage[1] EXCEPT
                                            !.transform = transform]),
                    !.circle = Some([w.state.circle[1] EXCEPT
                                            !.transform = transform]),
                    !.lastDistance = distance]]

\* mutant: the isDrawing test of line 289 is missing
endDrawing_noDrawingTest(w) ==
    [createExplosion(w, w.state.startX, w.state.startY, w.state.lastDistance)
        EXCEPT !.state = [@ EXCEPT
                    !.isDrawing = FALSE,
                    !.lastDistance = 0,
                    !.currentLine = None,
                    !.startImage = None,
                    !.circle = None],
               !.svg = 0]

\* mutant: the container is emptied (not only the <svg>) before the burst
endDrawing_emptiesContainer(w) ==
    IF ~w.state.isDrawing THEN w
    ELSE [createExplosion([w EXCEPT !.particles = EmptyBag],
                          w.state.startX, w.state.startY, w.state.lastDistance)
            EXCEPT !.state = [@ EXCEPT
                        !.isDrawing = FALSE,
                        !.lastDistance = 0,
                        !.currentLine = None,
                        !.startImage = None,
                        !.circle = None],
                   !.svg = 0]

\* mutant: currentLine is not set to null (line 329 is missing)
endDrawing_keepsLine(w) ==
    IF ~w.state.isDrawing THEN w
    ELSE LET e == createExplosion(w, w.state.startX, w.state.startY,
                                  w.state.lastDistance)
         IN  [e EXCEPT
                !.state = [@ EXCEPT
                    !.isDrawing = FALSE,
                    !.lastDistance = 0,
                    !.startImage = None,
                    !.circle = None],
                !.svg = 0]

\* mutant: lastDistance is not reset (line 325 is missing)
endDrawing_keepsDistance(w) ==
    IF ~w.state.isDrawing THEN w
    ELSE LET e == createExplosion(w, w.state.startX, w.state.startY,
                                  w.state.lastDistance)
         IN  [e EXCEPT
                !.state = [@ EXCEPT
                    !.isDrawing = FALSE,
                    !.currentLine = None,
                    !.startImage = None,
                    !.circle = None],
                !.svg = 0]

endDrawing(w) ==
    IF ~w.state.isDrawing THEN w
    ELSE LET e == createExplosion(w, w.state.startX, w.state.startY,
                                  w.state.lastDistance)
         IN  [e EXCEPT
                !.state = [@ EXCEPT
                    !.isDrawing = FALSE,
                    !.lastDistance = 0,
                    !.currentLine = None,
                    !.startImage = None,
                    !.circle = None],
                !.svg = 0]

TimerIds(w) == { t.id : t \in w.timers } \cup { w.ref }

\* mutant: lines 352-355 (the cancellation of a pending release) are missing
handleHandUpdate_noCancel(w, cb, data) ==
    IF ~cb.hand THEN w
    ELSE IF data.isDetected /\ data.isPinching
         THEN LET s == IF ~w.state.isDrawing
                       THEN startDrawing(w, data.cursor.x, data.cursor.y, cb.assets)
                       ELSE w
              IN  IF s.state.isDrawing
                  THEN updateDrawing(s, data.cursor.x, data.cursor.y)
                  ELSE s
         ELSE IF w.state.isDrawing /\ w.ref = 0
              THEN [w EXCEPT
                      !.timers = @ \cup {[id |-> FreshId(TimerIds(w)),
                                          due |-> now + RELEASE_DEBOUNCE_MS]},
                      !.ref = FreshId(TimerIds(w))]
              ELSE w

\* mutant: a detected hand moves the pull even when it does not pinch
handleHandUpdate_followsOpenHand(w, cb, data) ==
    IF ~cb.hand THEN w
    ELSE LET confident == data.isDetected /\ data.isPinching
             c == IF confident /\ w.ref # 0
                  THEN [w EXCEPT !.timers = { t \in @ : t.id # w.ref }, !.ref = 0]
                  ELSE w
             u == IF data.isDetected /\ c.state.isDrawing
                  THEN updateDrawing(c, data.cursor.x, data.cursor.y)
                  ELSE c
         IN  IF confident
             THEN LET s == IF ~c.state.isDrawing
                           THEN startDrawing(c, data.cursor.x, data.cursor.y, cb.assets)
                           ELSE c
                  IN  IF s.state.isDrawing
                      THEN updateDrawing(s, data.cursor.x, data.cursor.y)
                      ELSE s
             ELSE IF u.state.isDrawing /\ u.ref = 0
                  THEN LET id == FreshId(TimerIds(u))
                       IN  [u EXCEPT
                              !.timers = @ \cup {[id |-> id,
                                                  due |-> now + RELEASE_DEBOUNCE_MS]},
                              !.ref = id]
                  ELSE u

\* mutant: every release observation restarts the 80 ms timer (the
\* releaseTimeoutRef test of line 371 is replaced by a clearTimeout)
handleHandUpdate_rearms(w, cb, data) ==
    IF ~cb.hand THEN w
    ELSE LET confident == data.isDetected /\ data.isPinching
             c == IF w.ref # 0
                  THEN [w EXCEPT !.timers = { t \in @ : t.id # w.ref }, !.ref = 0]
                  ELSE w
         IN  IF confident
             THEN LET s == IF ~c.state.isDrawing
                           THEN startDrawing(c, data.cursor.x, data.cursor.y, cb.assets)
                           ELSE c
                  IN  IF s.state.isDrawing
                      THEN updateDrawing(s, data.cursor.x, data.cursor.y)
                      ELSE s
             ELSE IF c.state.isDrawing
                  THEN LET id == FreshId(TimerIds(c))
                       IN  [c EXCEPT
                              !.timers = @ \cup {[id |-> id,
                                                  due |-> now + RELEASE_DEBOUNCE_MS]},
                              !.ref = id]
                  ELSE c

\* handleHandUpdate of the render that made the closure cb
handleHandUpdate(w, cb, data) ==
    IF ~cb.hand THEN w
    ELSE LET confident == data.isDetected /\ data.isPinching
             \* lines 352-355: cancel a pending release
             c == IF confident /\ w.ref # 0
                  THEN [w EXCEPT !.timers = { t \in @ : t.id # w.ref }, !.ref = 0]
                  ELSE w
         IN  IF confident
             THEN LET s == IF ~c.state.isDrawing
                           THEN startDrawing(c, data.cursor.x, data.cursor.y, cb.assets)
                           ELSE c
                  IN  IF s.state.isDrawing
                      THEN updateDrawing(s, data.cursor.x, data.cursor.y)
                      ELSE s
             ELSE IF c.state.isDrawing /\ c.ref = 0
                  THEN LET id == FreshId(TimerIds(c))
                       IN  [c EXCEPT
                              !.timers = @ \cup {[id |-> id,
                                                  due |-> now + RELEASE_DEBOUNCE_MS]},
                              !.ref = id]
                  ELSE c

\* the assignment of a World back to the variables
Store(w) ==
    /\ state' = w.state
    /\ svg' = w.svg
    /\ particles' = w.particles
    /\ releaseTimeoutRef' = w.ref
    /\ timers' = w.timers

\* ------------------------------------------------------------------ history
\* last records the step just taken: the operation; whether a session was
\* open and when the release timer of releaseTimeoutRef was due (0: none)
\* before it; the pointer position, or the landmark result and the sample of
\* a frame; the bursts it spawned; whether a hand has been detected since
\* hand mode was last enabled (seen), and whether the frame just sampled came
\* before any such detection (first); the thumb-index distances classified
\* one after the other by ClassifyFrame and their results (trail); the
\* arguments a function of handTracking.ts was called with (args)
NoStep == [op |-> "init", wasDrawing |-> FALSE, timerDue |-> 0, point |-> None,
           results |-> << >>, sample |-> None, spawned |-> << >>,
           seen |-> FALSE, first |-> FALSE, trail |-> << >>, args |-> << >>]

PendingDue ==
    IF \E t \in timers : t.id = releaseTimeoutRef
    THEN (CHOOSE t \in timers : t.id = releaseTimeoutRef).due
    ELSE 0

Step(op, w) ==
    [NoStep EXCEPT !.op = op, !.wasDrawing = state.isDrawing,
                   !.timerDue = PendingDue, !.spawned = w.spawned,
                   !.seen = last.seen]

PointerStep(op, p, w) == [Step(op, w) EXCEPT !.point = Some(p)]

FrameStep(op, results, data, w) ==
    [Step(op, w) EXCEPT !.results = results, !.sample = Some(data),
                        !.seen = last.seen \/ results # << >>,
                        !.first = ~last.seen]

FrameOps == { "frame", "loadeddata", "detachedLoadeddata" }
PointerOps == { "press", "drag", "release" }

\* the value handStateRef is created with
InitialHandState == [isPinching |-> FALSE, lastCursor |-> [x |-> 0, y |-> 0],
                     lastDetectedAt |-> 0]

Init ==
    /\ now = 0
    /\ isHandMode = FALSE
    /\ assetsLoaded = FALSE
    /\ imageKeys = {}
    /\ explosionKeys = {}
    /\ state = IdleState
    /\ svg = 0
    /\ particles = EmptyBag
    /\ releaseTimeoutRef = 0
    /\ timers = {}
    /\ observer = Some([assets |-> FALSE, isPressed |-> FALSE, isDragging |-> FALSE])
    /\ videoRef = None
    /\ detached = {}
    /\ requestRef = 0
    /\ rafs = {}
    /\ isRequestingPermissionRef = FALSE
    /\ loadedDataHandlerRef = None
    /\ handStateRef = InitialHandState
    /\ permissionError = FALSE
    /\ req = None
    /\ handLandmarker = 0
    /\ handLandmarkerPromise = None
    /\ creations = {}
    /\ calls = {}
    /\ last = NoStep

\* --------------------------------------------------- HandController methods
\* detectHands: null without a landmarker, else the model's result for the
\* frame (null and an empty landmark list take the same branch of the caller)
detectHands(det) == IF handLandmarker # 0 THEN det ELSE << >>

\* what the landmark model can see in the mounted video: a hand only when the
\* video shows a loaded camera stream
HasFrames(video) == video # None /\ video[1].srcObject /\ video[1].loaded

Visible(video, D) == IF HasFrames(video) THEN D ELSE { << >> }

\* mutant: no grace window, a frame without a detection reports the loss
sampleFrame_noGrace(hs, results) ==
    IF results # << >>
    THEN [hs |-> [isPinching |-> isPinching(results[1], hs.isPinching),
                  lastCursor |-> getCursorPosition(results[1], Viewport.innerWidth,
                                                   Viewport.innerHeight),
                  lastDetectedAt |-> now],
          data |-> [cursor |-> getCursorPosition(results[1], Viewport.innerWidth,
                                                 Viewport.innerHeight),
                    isPinching |-> isPinching(results[1], hs.isPinching),
                    isDetected |-> TRUE]]
    ELSE [hs |-> [hs EXCEPT !.isPinching = FALSE],
          data |-> [cursor |-> hs.lastCursor, isPinching |-> FALSE,
                    isDetected |-> FALSE]]

\* mutant: the grace window includes its end (delta <= 140)
sampleFrame_inclusiveGrace(hs, results) ==
    IF results # << >>
    THEN [hs |-> [isPinching |-> isPinching(results[1], hs.isPinching),
                  lastCursor |-> getCursorPosition(results[1], Viewport.innerWidth,
                                                   Viewport.innerHeight),
                  lastDetectedAt |-> now],
          data |-> [cursor |-> getCursorPosition(results[1], Viewport.innerWidth,
                                                 Viewport.innerHeight),
                    isPinching |-> isPinching(results[1], hs.isPinching),
                    isDetected |-> TRUE]]
    ELSE IF now - hs.lastDetectedAt <= GRACE_MS
         THEN [hs |-> hs,
               data |-> [cursor |-> hs.lastCursor, isPinching |-> hs.isPinching,
                         isDetected |-> TRUE]]
         ELSE [hs |-> [hs EXCEPT !.isPinching = FALSE],
               data |-> [cursor |-> hs.lastCursor, isPinching |-> FALSE,
                         isDetected |-> FALSE]]

\* mutant: a detection does not store lastDetectedAt (line 45 is missing)
sampleFrame_keepsDetectedAt(hs, results) ==
    IF results # << >>
    THEN LET landmarks == results[1]
             pinching == isPinching(landmarks, hs.isPinching)
             cursor == getCursorPosition(landmarks, Viewport.innerWidth,
                                         Viewport.innerHeight)
         IN  [hs |-> [hs EXCEPT !.isPinching = pinching, !.lastCursor = cursor],
              data |-> [cursor |-> cursor, isPinching |-> pinching,
                        isDetected |-> TRUE]]
    ELSE LET delta == now - hs.lastDetectedAt
             stillDetected == delta < GRACE_MS
             hs2 == IF ~stillDetected THEN [hs EXCEPT !.isPinching = FALSE] ELSE hs
         IN  [hs |-> hs2,
              data |-> [cursor |-> hs2.lastCursor, isPinching |-> hs2.isPinching,
                        isDetected |-> stillDetected]]

\* lines 38-65 of predictWebcam: the new pinch state and the emitted sample
sampleFrame(hs, results) ==
    IF results # << >>
    THEN LET landmarks == results[1]
             pinching == isPinching(landmarks, hs.isPinching)
             cursor == getCursorPosition(landmarks, Viewport.innerWidth,
                                         Viewport.innerHeight)
         IN  [hs |-> [isPinching |-> pinching, lastCursor |-> cursor,
                      lastDetectedAt |-> now],
              data |-> [cursor |-> cursor, isPinching |-> pinching,
                        isDetected |-> TRUE]]
    ELSE LET delta == now - hs.lastDetectedAt
             stillDetected == delta < GRACE_MS
             hs2 == IF ~stillDetected THEN [hs EXCEPT !.isPinching = FALSE] ELSE hs
         IN  [hs |-> hs2,
              data |-> [cursor |-> hs2.lastCursor, isPinching |-> hs2.isPinching,
                        isDetected |-> stillDetected]]

\* mutant: the videoRef.current test of line 32 is missing
predictWebcam_noVideoTest(op, cb, video, det, rq, pending) ==
    \E results \in { detectHands(det) } :
    \E f \in { sampleFrame(handStateRef, results) } :
    \E w \in { handleHandUpdate(World, cb, f.data) } :
        /\ handStateRef' = f.hs
        /\ Store(w)
        /\ rafs' = pending \cup
               { [id |-> FreshId({ r.id : r \in pending } \cup { rq }), cb |-> cb] }
        /\ requestRef' = FreshId({ r.id : r \in pending } \cup { rq })
        /\ last' = FrameStep(op, results, f.data, w)

\* predictWebcam of the closure cb, called with the <video> video mounted (or
\* None), requestRef.current = rq and the animation frames pending
predictWebcam(op, cb, video, det, rq, pending) ==
    IF video = None
    THEN /\ rafs' = pending
         /\ requestRef' = rq
         /\ last' = Step(op, World)
         /\ UNCHANGED << state, svg, particles, releaseTimeoutRef, timers,
                         handStateRef >>
    ELSE \* detectForVideo belongs to the landmark library: on a <video> that
         \* shows no frame it either throws, which ends the callback at line
         \* 35, or returns no landmarks
         \/ /\ handLandmarker # 0
            /\ ~HasFrames(video)
            /\ rafs' = pending
            /\ requestRef' = rq
            /\ last' = Step(op, World)
            /\ UNCHANGED << state, svg, particles, releaseTimeoutRef, timers,
                            handStateRef >>
         \/ \E results \in { detectHands(det) } :
            \E f \in { sampleFrame(handStateRef, results) } :
            \E w \in { handleHandUpdate(World, cb, f.data) } :
                /\ handStateRef' = f.hs
                /\ Store(w)
                /\ rafs' = pending \cup
                       { [id |-> FreshId({ r.id : r \in pending } \cup { rq }), cb |-> cb] }
                /\ requestRef' = FreshId({ r.id : r \in pending } \cup { rq })
                /\ last' = FrameStep(op, results, f.data, w)

\* input that may open a session is held back while MaxParticles particles
\* are in flight
MayOpen == BagCardinality(particles) < MaxParticles

\* the browser runs a pending animation-frame callback
AnimationFrame(D) ==
    \E r \in rafs, det \in Visible(videoRef, D) :
        /\ MayOpen \/ state.isDrawing
        /\ predictWebcam("frame", r.cb, videoRef, det, requestRef, rafs \ { r })
        /\ UNCHANGED << now, isHandMode, assetsLoaded, imageKeys, explosionKeys,
                        observer, videoRef, detached, isRequestingPermissionRef,
                        loadedDataHandlerRef, permissionError, req, landmarkerVars >>

\* mutant: the pending callback is not cancelled (lines 73-76 are missing)
handleVideoLoadedData_noCancel(op, cb, video, det) ==
    predictWebcam(op, cb, video, det, requestRef, rafs)

\* handleVideoLoadedData of the closure cb (setIsStreaming is presentation)
handleVideoLoadedData(op, cb, video, det) ==
    predictWebcam(op, cb, video, det, 0, { r \in rafs : r.id # requestRef })

\* the mounted <video> fires loadeddata for its stream
VideoLoadedData(D) ==
    /\ videoRef # None
    /\ videoRef[1].srcObject
    /\ ~videoRef[1].loaded
    /\ MayOpen \/ state.isDrawing
    /\ videoRef' = Some([videoRef[1] EXCEPT !.loaded = TRUE])
    /\ \E cb \in videoRef[1].listeners, det \in D :
           handleVideoLoadedData("loadeddata", cb,
                                 Some([videoRef[1] EXCEPT !.loaded = TRUE]), det)
    /\ UNCHANGED << now, isHandMode, assetsLoaded, imageKeys, explosionKeys,
                    observer, detached, isRequestingPermissionRef,
                    loadedDataHandlerRef, permissionError, req, landmarkerVars >>

\* an unmounted <video> that kept its stream and its listener fires loadeddata
DetachedLoadedData(D) ==
    \E cb \in detached, det \in Visible(videoRef, D) :
        /\ MayOpen \/ state.isDrawing
        /\ detached' = detached \ { cb }
        /\ handleVideoLoadedData("detachedLoadeddata", cb, videoRef, det)
        /\ UNCHANGED << now, isHandMode, assetsLoaded, imageKeys, explosionKeys,
                        observer, videoRef, isRequestingPermissionRef,
                        loadedDataHandlerRef, permissionError, req, landmarkerVars >>

\* mutant: the isRequestingPermissionRef test of line 82 is missing
requestCameraAccess_noFlagTest(cb, throws) ==
    IF throws
    THEN /\ isRequestingPermissionRef' = FALSE
         /\ permissionError' = TRUE
         /\ req' = None
    ELSE /\ isRequestingPermissionRef' = TRUE
         /\ permissionError' = FALSE
         /\ req' = Some([pc |-> "model", cb |-> cb])

\* requestCameraAccess of the closure cb, up to its first await: nothing when
\* a request is in flight; else either a synchronous throw (no HTTPS, no
\* mediaDevices: caught, reported, flag cleared) or the wait for the model
requestCameraAccess(cb, throws) ==
    IF isRequestingPermissionRef
    THEN UNCHANGED << isRequestingPermissionRef, permissionError, req >>
    ELSE IF throws
         THEN /\ isRequestingPermissionRef' = FALSE
              /\ permissionError' = TRUE
              /\ req' = None
         ELSE /\ isRequestingPermissionRef' = TRUE
              /\ permissionError' = FALSE
              /\ req' = Some([pc |-> "model", cb |-> cb])

\* permissions.query and createHandLandmarker settle. The program calls
\* createHandLandmarker one call at a time (requestCameraAccess lets one
\* request run), so the call, the creation and the return are one step here;
\* SpecLandmarker follows the calls and the promises themselves
ModelSettles ==
    /\ req # None
    /\ req[1].pc = "model"
    /\ \/ /\ handLandmarker' = IF handLandmarker # 0 THEN handLandmarker ELSE 1
          /\ req' = Some([req[1] EXCEPT !.pc = "camera"])
          /\ UNCHANGED << isRequestingPermissionRef, permissionError >>
          /\ last' = Step("modelReady", World)
       \/ /\ handLandmarker = 0
          /\ req' = None
          /\ permissionError' = TRUE
          /\ isRequestingPermissionRef' = FALSE
          /\ last' = Step("modelFailed", World)
          /\ UNCHANGED handLandmarker
    /\ UNCHANGED << now, canvasVars, videoRef, detached, requestRef, rafs,
                    loadedDataHandlerRef, handStateRef, handLandmarkerPromise,
                    creations, calls >>

\* getUserMedia settles
CameraSettles ==
    /\ req # None
    /\ req[1].pc = "camera"
    /\ \/ /\ IF videoRef # None
             THEN /\ videoRef' = Some([srcObject |-> TRUE,
                                       listeners |-> (videoRef[1].listeners
                                                      \ { h : h \in { x \in { req[1].cb } \cup videoRef[1].listeners :
                                                                      loadedDataHandlerRef = Some(x) } })
                                                     \cup { req[1].cb },
                                       loaded |-> FALSE])
                  /\ loadedDataHandlerRef' = Some(req[1].cb)
             ELSE UNCHANGED << videoRef, loadedDataHandlerRef >>
          /\ UNCHANGED permissionError
          /\ last' = Step("cameraReady", World)
       \/ /\ permissionError' = TRUE
          /\ last' = Step("cameraFailed", World)
          /\ UNCHANGED << videoRef, loadedDataHandlerRef >>
    /\ req' = None
    /\ isRequestingPermissionRef' = FALSE
    /\ UNCHANGED << now, canvasVars, detached, requestRef, rafs, handStateRef,
                    landmarkerVars >>

\* the "Request Camera" button of the error panel
ClickRequestCamera ==
    /\ isHandMode
    /\ permissionError
    /\ ~isRequestingPermissionRef
    /\ \E throws \in BOOLEAN : requestCameraAccess(Cur, throws)
    /\ last' = Step("requestCamera", World)
    /\ UNCHANGED << now, canvasVars, videoRef, detached, requestRef, rafs,
                    loadedDataHandlerRef, handStateRef, landmarkerVars >>

\* ------------------------------------------------------- SlingshotCanvas UI
NewObserver(assets) ==
    Some([assets |-> assets, isPressed |-> FALSE, isDragging |-> FALSE])

\* mutant: the cleanup of the mouse effect does not kill the observer
EnableHandMode_keepsObserver ==
    /\ ~isHandMode
    /\ isHandMode' = TRUE
    /\ videoRef' = Some([srcObject |-> FALSE, listeners |-> {}, loaded |-> FALSE])
    /\ \E throws \in BOOLEAN :
           requestCameraAccess([hand |-> TRUE, assets |-> assetsLoaded], throws)
    /\ last' = [Step("handMode", World) EXCEPT !.seen = FALSE]
    /\ UNCHANGED << now, assetsLoaded, imageKeys, explosionKeys, state, svg,
                    particles, releaseTimeoutRef, timers, detached, observer,
                    requestRef, rafs, loadedDataHandlerRef, handStateRef,
                    landmarkerVars >>

\* the "Hand AI" button: setIsHandMode(true), the render, the commit (the
\* <video> is mounted), the cleanup of the mouse effect (observer.kill) and
\* the enable effect of HandController
EnableHandMode ==
    /\ ~isHandMode
    /\ isHandMode' = TRUE
    /\ observer' = None
    /\ videoRef' = Some([srcObject |-> FALSE, listeners |-> {}, loaded |-> FALSE])
    /\ \E throws \in BOOLEAN :
           requestCameraAccess([hand |-> TRUE, assets |-> assetsLoaded], throws)
    /\ last' = [Step("handMode", World) EXCEPT !.seen = FALSE]
    /\ UNCHANGED << now, assetsLoaded, imageKeys, explosionKeys, state, svg,
                    particles, releaseTimeoutRef, timers, detached,
                    requestRef, rafs, loadedDataHandlerRef, handStateRef,
                    landmarkerVars >>

\* the "Mouse" button: setIsHandMode(false), the render, the commit (the
\* <video> is unmounted, so videoRef.current is null when the cleanup of the
\* enable effect runs), that cleanup, and the mouse effect (Observer.create)
EnableMouseMode ==
    /\ isHandMode
    /\ isHandMode' = FALSE
    /\ videoRef' = None
    /\ detached' = detached \cup
           (IF videoRef[1].srcObject /\ ~videoRef[1].loaded
            THEN videoRef[1].listeners ELSE {})
    /\ rafs' = { r \in rafs : r.id # requestRef }
    /\ requestRef' = 0
    /\ observer' = NewObserver(assetsLoaded)
    /\ last' = Step("mouseMode", World)
    /\ UNCHANGED << now, assetsLoaded, imageKeys, explosionKeys, state, svg,
                    particles, releaseTimeoutRef, timers,
                    isRequestingPermissionRef, loadedDataHandlerRef,
                    handStateRef, permissionError, req, landmarkerVars >>

\* the keys of the image lists: the code only asks whether any image of a
\* list loaded (imageKeys.length, explosionKeys.length), so one key stands
\* for each list
PRELOAD_KEYS == { "combo" }
EXPLOSION_KEYS == { "blue-circle" }

\* loadImages resolves: the keys of the images that loaded, setAssetsLoaded,
\* the render, and the effects that depend on startDrawing: the mouse effect
\* (kill, create) or the enable effect of HandController (cleanup with the
\* <video> still mounted, then requestCameraAccess)
LoadImages ==
    /\ ~assetsLoaded
    /\ assetsLoaded' = TRUE
    /\ imageKeys' \in SUBSET PRELOAD_KEYS
    /\ explosionKeys' \in SUBSET EXPLOSION_KEYS
    /\ IF isHandMode
       THEN /\ videoRef' = Some([srcObject |-> FALSE,
                                 listeners |-> { h \in videoRef[1].listeners :
                                                   loadedDataHandlerRef # Some(h) },
                                 loaded |-> FALSE])
            /\ rafs' = { r \in rafs : r.id # requestRef }
            /\ requestRef' = 0
            /\ \E throws \in BOOLEAN :
                   requestCameraAccess([hand |-> TRUE, assets |-> TRUE], throws)
            /\ UNCHANGED observer
       ELSE /\ observer' = NewObserver(TRUE)
            /\ UNCHANGED << videoRef, rafs, requestRef, isRequestingPermissionRef,
                            permissionError, req >>
    /\ last' = Step("assets", World)
    /\ UNCHANGED << now, isHandMode, state, svg, particles,
                    releaseTimeoutRef, timers, detached, loadedDataHandlerRef,
                    handStateRef, landmarkerVars >>

\* the pointer goes down on the proxy layer: onPress
PointerPress(P) ==
    \E p \in P :
        /\ observer # None
        /\ ~observer[1].isPressed
        /\ MayOpen
        /\ observer' = Some([observer[1] EXCEPT !.isPressed = TRUE])
        /\ \E w \in { startDrawing(World, p[1], p[2], observer[1].assets) } :
               Store(w) /\ last' = PointerStep("press", p, w)
        /\ UNCHANGED << now, isHandMode, assetsLoaded, imageKeys, explosionKeys,
                        handVars >>

\* the pressed pointer moves: onDrag
PointerDrag(P) ==
    \E p \in P :
        /\ observer # None
        /\ observer[1].isPressed
        /\ observer' = Some([observer[1] EXCEPT !.isDragging = TRUE])
        /\ \E w \in { IF state.isDrawing THEN updateDrawing(World, p[1], p[2])
                        ELSE World } :
               Store(w) /\ last' = PointerStep("drag", p, w)
        /\ UNCHANGED << now, isHandMode, assetsLoaded, imageKeys, explosionKeys,
                        handVars >>

\* mutant: the second callback does not see that the session is closed
PointerRelease_burstsTwice ==
    /\ observer # None
    /\ observer[1].isPressed
    /\ observer' = Some([observer[1] EXCEPT !.isPressed = FALSE, !.isDragging = FALSE])
    /\ \E d \in { IF observer[1].isDragging THEN endDrawing(World) ELSE World } :
       \E w \in { endDrawing_noDrawingTest(d) } :
           Store(w) /\ last' = Step("release", w)
    /\ UNCHANGED << now, isHandMode, assetsLoaded, imageKeys, explosionKeys,
                    handVars >>

\* the pointer goes up: onDragEnd when it was dragged, then onRelease
PointerRelease ==
    /\ observer # None
    /\ observer[1].isPressed
    /\ observer' = Some([observer[1] EXCEPT !.isPressed = FALSE, !.isDragging = FALSE])
    /\ \E d \in { IF observer[1].isDragging THEN endDrawing(World) ELSE World } :
       \E w \in { endDrawing(d) } :
           Store(w) /\ last' = Step("release", w)
    /\ UNCHANGED << now, isHandMode, assetsLoaded, imageKeys, explosionKeys,
                    handVars >>

\* mutant: the callback does not reset releaseTimeoutRef (line 376)
ReleaseTimeout_keepsRef ==
    \E t \in timers :
        /\ now >= t.due
        /\ \E w \in { endDrawing([World EXCEPT !.timers = @ \ { t }]) } :
               Store(w) /\ last' = Step("timeout", w)
        /\ UNCHANGED << now, isHandMode, assetsLoaded, imageKeys, explosionKeys,
                        observer, handVars >>

\* the release-debounce timer fires (lines 374-377)
ReleaseTimeout ==
    \E t \in timers :
        /\ now >= t.due
        /\ \E w \in { endDrawing([World EXCEPT !.timers = @ \ { t }]) } :
               Store([w EXCEPT !.ref = 0]) /\ last' = Step("timeout", w)
        /\ UNCHANGED << now, isHandMode, assetsLoaded, imageKeys, explosionKeys,
                        observer, handVars >>

\* time passes
Tick(d) ==
    /\ now + d <= MaxTime
    /\ now' = now + d
    /\ last' = Step("tick", World)
    /\ UNCHANGED << canvasVars, handVars >>

Next ==
    \/ \E d \in CoarseTicks : Tick(d)
    \/ LoadImages
    \/ EnableHandMode
    \/ EnableMouseMode
    \/ PointerPress(FewPoints)
    \/ PointerDrag(FewPoints)
    \/ PointerRelease
    \/ ReleaseTimeout
    \/ ModelSettles
    \/ CameraSettles
    \/ ClickRequestCamera
    \/ VideoLoadedData(FewDetections)
    \/ DetachedLoadedData(FewDetections)
    \/ AnimationFrame(FewDetections)

\* the whole program: every operation, few input values, a coarse clock
Spec == Init /\ [][Next]_vars

\* gesture mode alone (no switch back to the mouse, no acquisition failure
\* retried), with every landmark input and a 20 ms clock
NextGesture ==
    \/ \E d \in FineTicks : Tick(d)
    \/ LoadImages
    \/ EnableHandMode
    \/ ModelSettles
    \/ CameraSettles
    \/ VideoLoadedData(Detections)
    \/ AnimationFrame(Detections)
    \/ ReleaseTimeout

SpecGesture == Init /\ [][NextGesture]_vars

\* mouse mode alone, with every pointer position
NextMouse ==
    \/ \E d \in CoarseTicks : Tick(d)
    \/ LoadImages
    \/ PointerPress(Points)
    \/ PointerDrag(Points)
    \/ PointerRelease

SpecMouse == Init /\ [][NextMouse]_vars

\* pulls of a mouse session around two origins: the offsets have the lengths
\* 0, 29, 30, 60 and 130, in several directions, and the line end the code
\* computes for them has whole coordinates
PullOrigins == { << 0, 0 >>, << 200, 200 >> }
PullOffsets == { << 0, 0 >>, << 20, 21 >>, << 0, 29 >>, << 18, 24 >>, << 30, 0 >>,
                 << 36, 48 >>, << 78, 104 >>, << -78, -104 >>, << 104, -78 >>,
                 << 130, 0 >> }
PullTargets ==
    { p \in { << o[1] + v[1], o[2] + v[2] >> : o \in PullOrigins, v \in PullOffsets } :
        p[1] >= 0 /\ p[2] >= 0 }

IsWhole(a, b) ==
    \E r \in (IF Abs(a) > Abs(b) THEN Abs(a) ELSE Abs(b))..(Abs(a) + Abs(b)) :
        r * r = a * a + b * b

\* the points of P whose distance to the origin of the open session is a
\* whole number (all of P when no session is open)
WholePulls(P) ==
    { p \in P : ~state.isDrawing
                 \/ IsWhole(p[1] - state.startX, p[2] - state.startY) }

\* mouse sessions with the pulls above
NextPull ==
    \/ LoadImages
    \/ PointerPress(PullOrigins)
    \/ PointerDrag(WholePulls(PullTargets))
    \/ PointerRelease

SpecPull == Init /\ [][NextPull]_vars

\* mutant: the vertical tween has no onComplete
ParticleCompletes_keepsImage ==
    \E b \in BagToSet(particles) :
        /\ now >= b + FLIGHT_MIN_MS
        /\ last' = Step("complete", World)
        /\ UNCHANGED << now, canvasVars, handVars >>

\* the vertical tween of a particle completes, 1 s after the spawn at the
\* earliest: onComplete removes the image (lines 157-162)
ParticleCompletes ==
    \E b \in BagToSet(particles) :
        /\ now >= b + FLIGHT_MIN_MS
        /\ particles' = particles (-) SetToBag({ b })
        /\ last' = Step("complete", World)
        /\ UNCHANGED << now, isHandMode, assetsLoaded, imageKeys, explosionKeys,
                        state, svg, releaseTimeoutRef, timers, observer,
                        handVars >>

\* time passes while particles fly: a vertical tween completes less than 2 s
\* after the spawn, so the clock does not reach that time before it did
FlightTick(d) ==
    /\ now + d <= MaxFlight
    /\ \A b \in BagToSet(particles) : now + d < b + FLIGHT_MAX_MS
    /\ now' = now + d
    /\ last' = Step("tick", World)
    /\ UNCHANGED << canvasVars, handVars >>

\* mouse sessions, mode switches and the flight of the particles
NextBurst ==
    \/ \E d \in FlightTicks : FlightTick(d)
    \/ LoadImages
    \/ EnableHandMode
    \/ EnableMouseMode
    \/ PointerPress(FewPoints)
    \/ PointerDrag(FewPoints)
    \/ PointerRelease
    \/ ParticleCompletes

SpecBurst == Init /\ [][NextBurst]_vars

\* the tweens of gsap advance with the clock and complete
SpecBurstFair ==
    /\ SpecBurst
    /\ WF_vars(ParticleCompletes)
    /\ WF_vars(\E d \in FlightTicks : FlightTick(d))

\* gesture mode switched off and on again, with a hand that is absent,
\* pinched, at a thumb-index distance inside the hysteresis band (140 and
\* 179 thousandths), or open (180)
BandDetections == { << >>, << Hand(<<922, 104>>, <<0, 0>>) >>,
                    << Hand(<<922, 104>>, <<84, 112>>) >>,
                    << Hand(<<1000, 0>>, <<179, 0>>) >>,
                    << Hand(<<922, 104>>, <<108, 144>>) >> }

NextToggle ==
    \/ \E d \in CoarseTicks : Tick(d)
    \/ LoadImages
    \/ EnableHandMode
    \/ EnableMouseMode
    \/ ModelSettles
    \/ CameraSettles
    \/ VideoLoadedData(BandDetections)
    \/ AnimationFrame(BandDetections)
    \/ ReleaseTimeout

SpecToggle == Init /\ [][NextToggle]_vars

\* isPinching fed frame by frame with its previous result: hands at the
\* thumb-index distances 0, 139, 140, 160, 179 and 180 thousandths
HysteresisHands ==
    { Hand(<<922, 104>>, o) : o \in PinchOffsets \cup { <<96, 128>> } }

\* lines 39-45 of predictWebcam for the next landmark set of a sequence
ClassifyFrame(H) ==
    /\ Len(last.trail) < MaxFrames
    /\ \E landmarks \in H :
       \E f \in { sampleFrame(handStateRef, << landmarks >>) } :
           /\ handStateRef' = f.hs
           /\ last' = [Step("classify", World) EXCEPT
                          !.results = << landmarks >>,
                          !.trail = Append(last.trail,
                              << getDistance(landmarks[4], landmarks[8]),
                                 f.data.isPinching >>)]
    /\ UNCHANGED << now, canvasVars, videoRef, detached, requestRef, rafs,
                    isRequestingPermissionRef, loadedDataHandlerRef,
                    permissionError, req, landmarkerVars >>

\* a new sequence begins, with the stored isPinching of the one before
NewSequence ==
    /\ last.trail # << >>
    /\ last' = Step("newSequence", World)
    /\ UNCHANGED << now, canvasVars, handVars >>

NextHysteresis ==
    \/ ClassifyFrame(HysteresisHands)
    \/ NewSequence

SpecHysteresis == Init /\ [][NextHysteresis]_vars

\* getCursorPosition and isPinching called on their own: no landmark list
\* (null and [] take the same branch of lines 61 and 80, << >> stands for
\* both) or a hand whose index tip is at 0, 1/4, 1/2, 3/4 or 1 of the frame
\* in each direction, and viewports for which the products are whole pixels
CursorCoords == { 0, 250, 500, 750, 1000 }
CursorLandmarks ==
    { << >> } \cup { Hand(<<x, y>>, <<0, 0>>) : x \in CursorCoords, y \in CursorCoords }
ScreenWidths == { 1000, 1280, 1920 }
ScreenHeights == { 1000, 720, 1080 }

CallCursorAndPinch ==
    /\ \E landmarks \in CursorLandmarks, wasPinching \in BOOLEAN :
       \E screenWidth \in ScreenWidths, screenHeight \in ScreenHeights :
           last' = [Step("cursor", World) EXCEPT
                       !.args = << landmarks, wasPinching, screenWidth, screenHeight >>,
                       !.sample = Some([cursor |-> getCursorPosition(landmarks,
                                                       screenWidth, screenHeight),
                                        isPinching |-> isPinching(landmarks, wasPinching),
                                        isDetected |-> landmarks # << >>])]
    /\ UNCHANGED << now, canvasVars, handVars >>

NextCursor == CallCursorAndPinch

SpecCursor == Init /\ [][NextCursor]_vars

\* createHandLandmarker called several times, the calls overlapping or not.
\* A creation is the promise of lines 14-31, pending, fulfilled with the
\* instance it made, or rejected; a call is at its await of line 34 (the
\* call that made the promise), has returned the shared promise of line 12
\* and waits for it, or is settled with a value (0 when rejected).
\* mutant: the handLandmarkerPromise test of line 12 is missing
createHandLandmarker_noPromiseTest ==
    /\ Cardinality(calls) < MaxCalls
    /\ \E id \in { FreshId({ c.id : c \in calls }) } :
           IF handLandmarker # 0
           THEN /\ calls' = calls \cup { [id |-> id, pc |-> "fulfilled", p |-> 0,
                                          value |-> handLandmarker] }
                /\ UNCHANGED << handLandmarkerPromise, creations >>
           ELSE \E q \in { FreshId({ c.id : c \in creations }) } :
                /\ creations' = creations \cup { [id |-> q, status |-> "pending",
                                                  value |-> 0] }
                /\ handLandmarkerPromise' = Some(q)
                /\ calls' = calls \cup { [id |-> id, pc |-> "await", p |-> q,
                                          value |-> 0] }
    /\ last' = Step("createHandLandmarker", World)
    /\ UNCHANGED << now, canvasVars, videoRef, detached, requestRef, rafs,
                    isRequestingPermissionRef, loadedDataHandlerRef,
                    handStateRef, permissionError, req, handLandmarker >>

\* a call of createHandLandmarker, up to its return or its await (lines 10-34)
createHandLandmarker ==
    /\ Cardinality(calls) < MaxCalls
    /\ \E id \in { FreshId({ c.id : c \in calls }) } :
           IF handLandmarker # 0
           THEN /\ calls' = calls \cup { [id |-> id, pc |-> "fulfilled", p |-> 0,
                                          value |-> handLandmarker] }
                /\ UNCHANGED << handLandmarkerPromise, creations >>
           ELSE IF handLandmarkerPromise # None
           THEN /\ calls' = calls \cup { [id |-> id, pc |-> "shared",
                                          p |-> handLandmarkerPromise[1],
                                          value |-> 0] }
                /\ UNCHANGED << handLandmarkerPromise, creations >>
           ELSE \E q \in { FreshId({ c.id : c \in creations }) } :
                /\ creations' = creations \cup { [id |-> q, status |-> "pending",
                                                  value |-> 0] }
                /\ handLandmarkerPromise' = Some(q)
                /\ calls' = calls \cup { [id |-> id, pc |-> "await", p |-> q,
                                          value |-> 0] }
    /\ last' = Step("createHandLandmarker", World)
    /\ UNCHANGED << now, canvasVars, videoRef, detached, requestRef, rafs,
                    isRequestingPermissionRef, loadedDataHandlerRef,
                    handStateRef, permissionError, req, handLandmarker >>

\* the creation of lines 15-30 ends: createFromOptions made an instance,
\* which is stored (line 29), or one of the two awaits threw
CreationSettles ==
    /\ \E c \in creations :
        /\ c.status = "pending"
        /\ \/ /\ handLandmarker' = c.id
              /\ creations' = (creations \ { c }) \cup
                     { [c EXCEPT !.status = "fulfilled", !.value = c.id] }
              /\ last' = Step("created", World)
           \/ /\ creations' = (creations \ { c }) \cup
                     { [c EXCEPT !.status = "rejected"] }
              /\ last' = Step("creationFailed", World)
              /\ UNCHANGED handLandmarker
    /\ UNCHANGED << now, canvasVars, videoRef, detached, requestRef, rafs,
                    isRequestingPermissionRef, loadedDataHandlerRef,
                    handStateRef, permissionError, req, handLandmarkerPromise,
                    calls >>

\* a waiting call goes on once its promise is settled: the call that made
\* the promise runs its finally (line 36) and returns or throws; a call that
\* returned the shared promise settles as the promise did
CallResumes ==
    /\ \E c \in calls, q \in creations :
        /\ c.pc \in { "await", "shared" }
        /\ q.id = c.p
        /\ q.status # "pending"
        /\ calls' = (calls \ { c }) \cup
               { [c EXCEPT !.pc = q.status, !.value = q.value] }
        /\ handLandmarkerPromise' =
               IF c.pc = "await" THEN None ELSE handLandmarkerPromise
    /\ last' = Step("callResumes", World)
    /\ UNCHANGED << now, canvasVars, videoRef, detached, requestRef, rafs,
                    isRequestingPermissionRef, loadedDataHandlerRef,
                    handStateRef, permissionError, req, handLandmarker,
                    creations >>

NextLandmarker ==
    \/ createHandLandmarker
    \/ CreationSettles
    \/ CallResumes

SpecLandmarker == Init /\ [][NextLandmarker]_vars

\* ================================================================== claims
Confident(sample) == sample # None /\ sample[1].isDetected /\ sample[1].isPinching

\* C1: at most one drag session is open at any time: a startDraw issued while
\* a session is open leaves one session (one line, one anchor, one projectile
\* in the <svg>) and leaves the stored origin and the rest of the session as
\* they were.
C1_SingleSession ==
    [][ /\ svg' \in { 0, 3 }
        /\ (last'.op = "press" /\ state.isDrawing) => (state' = state /\ svg' = svg)
      ]_vars

\* a press at another point than the origin of the open session
C1_Witness ==
    /\ last.op = "press"
    /\ last.wasDrawing
    /\ state.isDrawing
    /\ last.point # Some(<< state.startX, state.startY >>)

\* C2: in gesture mode, a detected-and-pinching sample that arrives while the
\* release timer is armed and before its 80 ms have elapsed cancels it: no
\* timer is left to run endDraw, no burst is spawned, and the session is still
\* open with its origin unchanged.
C2_DebounceCancel ==
    [][ ( /\ last'.op \in FrameOps
          /\ Confident(last'.sample)
          /\ isHandMode
          /\ state.isDrawing
          /\ \E t \in timers : t.id = releaseTimeoutRef /\ now < t.due )
        => ( /\ timers' = {}
             /\ releaseTimeoutRef' = 0
             /\ last'.spawned = << >>
             /\ state'.isDrawing
             /\ state'.startX = state.startX
             /\ state'.startY = state.startY
             /\ svg' = svg )
      ]_vars

\* the pinch came back 20 to 60 ms after the release was first seen
C2_Witness ==
    /\ last.op = "frame"
    /\ Confident(last.sample)
    /\ last.wasDrawing
    /\ last.timerDue > now
    /\ last.timerDue < now + RELEASE_DEBOUNCE_MS
    /\ state.isDrawing
    /\ releaseTimeoutRef = 0

\* C3 (as stated): in gesture mode, when the release timer fires on an open
\* session, endDraw runs once: exactly one burst is spawned, the machine is
\* Idle and no timer is pending.
C3_Original ==
    [][ (last'.op = "timeout" /\ isHandMode /\ state.isDrawing)
        => ( /\ Len(last'.spawned) = 1
             /\ ~state'.isDrawing
             /\ releaseTimeoutRef' = 0
             /\ timers' = {} )
      ]_vars

\* C3 (amended): in gesture mode, when the release timer fires on an open
\* session, endDraw runs once: exactly one burst is spawned if at least one
\* explosion image has loaded and none otherwise, the machine is Idle and no
\* timer is pending.
C3_DebounceFires ==
    [][ (last'.op = "timeout" /\ isHandMode /\ state.isDrawing)
        => ( /\ Len(last'.spawned) = (IF explosionKeys # {} THEN 1 ELSE 0)
             /\ BagCardinality(particles') =
                    BagCardinality(particles) + (IF explosionKeys # {}
                                          THEN particleCount(state.lastDistance) ELSE 0)
             /\ ~state'.isDrawing
             /\ svg' = 0
             /\ releaseTimeoutRef' = 0
             /\ timers' = {} )
      ]_vars

\* the timer fired in gesture mode and its endDraw spawned the burst
C3_Witness ==
    /\ last.op = "timeout"
    /\ isHandMode
    /\ last.wasDrawing
    /\ Len(last.spawned) = 1
    /\ ~state.isDrawing

\* C4: pinch hysteresis, for every thumb-tip/index-tip distance d of a frame
\* with a hand and every prior pinch state: from not pinching the result is
\* true iff d < 0.14; from pinching the result is false iff d >= 0.18; for d in
\* [0.14, 0.18) the result is the prior state. The result becomes the stored
\* pinch state and the pinch value of the sample.
C4_PinchHysteresis ==
    [][ (last'.op \in FrameOps /\ last'.results # << >>)
        => \A d \in { getDistance(last'.results[1][4], last'.results[1][8]) } :
           LET was == handStateRef.isPinching
               res == last'.sample[1].isPinching
           IN  /\ ~was => (res <=> d < 140)
               /\ was => (~res <=> d >= 180)
               /\ (d >= 140 /\ d < 180) => (res = was)
               /\ handStateRef'.isPinching = res
               /\ last'.sample[1].isDetected
      ]_vars

\* a frame with d in the band [0.14, 0.18) that kept the pinch
C4_Witness ==
    /\ last.op = "frame"
    /\ last.results # << >>
    /\ getDistance(last.results[1][4], last.results[1][8]) \in 140..179
    /\ last.sample[1].isPinching
    /\ state.isDrawing

\* C5: grace window, for a frame with no detection: if now - lastDetectedAt
\* >= 140 ms the sample has isDetected = false and isPinching = false and the
\* stored pinch state is forced to false; if now - lastDetectedAt < 140 ms the
\* sample has isDetected = true and carries the cached cursor and pinch value,
\* and the stored pinch state, cursor and lastDetectedAt are unchanged.
C5_GraceWindow ==
    [][ (last'.op \in FrameOps /\ last'.sample # None /\ last'.results = << >>)
        => LET delta == now - handStateRef.lastDetectedAt
               sample == last'.sample[1]
           IN  /\ delta >= 140 =>
                     /\ ~sample.isDetected
                     /\ ~sample.isPinching
                     /\ handStateRef' = [handStateRef EXCEPT !.isPinching = FALSE]
               /\ delta < 140 =>
                     /\ sample.isDetected
                     /\ sample.cursor = handStateRef.lastCursor
                     /\ sample.isPinching = handStateRef.isPinching
                     /\ handStateRef' = handStateRef
      ]_vars

\* exactly 140 ms after a detection of a pinching hand, the frame without a
\* detection reported the loss, which armed the release of the open session
C5_Witness ==
    /\ last.op = "frame"
    /\ last.results = << >>
    /\ last.sample # None
    /\ handStateRef.lastDetectedAt > 0
    /\ now - handStateRef.lastDetectedAt = GRACE_MS
    /\ ~last.sample[1].isDetected
    /\ last.wasDrawing
    /\ last.timerDue = 0
    /\ releaseTimeoutRef # 0

\* C6: in every reachable Idle state, updateDraw(p) and endDraw() are no-ops:
\* isDrawing stays false, the origin and lastDistance are unchanged, no SVG
\* element is created and no burst is spawned.
C6_IdleNoOps ==
    ~state.isDrawing =>
        /\ endDrawing(World) = World
        /\ \A p \in Points : updateDrawing(World, p[1], p[2]) = World

\* the pointer was released with no session open (endDrawing ran while Idle)
\* and the origin of an earlier session is still stored
C6_Witness ==
    /\ last.op = "release"
    /\ ~last.wasDrawing
    /\ ~state.isDrawing
    /\ state.startX # 0
    /\ last.spawned = << >>
    /\ explosionKeys # {}

\* C7 (as stated): once the mode is switched from hand to mouse, a release
\* timer armed before the switch never runs endDraw: no release timer ends a
\* session in mouse mode.
C7_Original ==
    [][ ~(last'.op = "timeout" /\ ~isHandMode /\ state.isDrawing /\ ~state'.isDrawing)
      ]_vars

\* the timer armed in gesture mode fired after the switch to the mouse and
\* its endDraw closed the session
C7_Witness ==
    /\ last.op = "timeout"
    /\ ~isHandMode
    /\ last.wasDrawing
    /\ ~state.isDrawing
    /\ observer # None

\* C8: in mouse mode no gesture sample is delivered to the interaction state
\* machine, whatever callback of the gesture side runs (a pending frame, a
\* loadeddata event, the settling of a camera acquisition that was in flight
\* when the mode was switched).
C8_NoSamplingWhenDisabled ==
    /\ last.sample # None => isHandMode
    /\ ~isHandMode => videoRef = None /\ requestRef = 0
    /\ (~isHandMode /\ last.op \in FrameOps \cup { "cameraReady", "cameraFailed" })
           => last.spawned = << >> /\ last.wasDrawing = state.isDrawing

\* in mouse mode, the <video> of the disabled gesture mode fired loadeddata
\* (its predictWebcam stopped at line 32)
C8_Witness ==
    /\ ~isHandMode
    /\ last.op = "detachedLoadeddata"
    /\ last.sample = None

\* C9: one input source at a time: a pointer press, drag or release changes
\* the drag session only in mouse mode (in gesture mode no pointer handler is
\* installed), and a frame callback changes it only in gesture mode.
C9_OneInputSource ==
    [][ /\ (last'.op \in PointerOps) => ~isHandMode
        /\ isHandMode => observer = None
        /\ (last'.op \in FrameOps /\ ~isHandMode)
               => (state' = state /\ svg' = svg /\ particles' = particles
                   /\ timers' = timers /\ releaseTimeoutRef' = releaseTimeoutRef)
      ]_vars

\* the pointer closes, in mouse mode, a session that a pinch opened in
\* gesture mode
C9_Witness ==
    /\ ~isHandMode
    /\ last.op = "release"
    /\ last.wasDrawing
    /\ ~state.isDrawing
    /\ handStateRef.isPinching

\* C10: every burst that endDraw spawns has round(clamp(3, 40, distance / 10))
\* particles: within [3, 40], 3 at distance 0, 40 at distance 500 and above,
\* the integer nearest to the clamped distance / 10, and at least the count of
\* every smaller distance.
C10_ParticleCount ==
    \A i \in 1..Len(last.spawned) :
        LET b == last.spawned[i]
        IN  /\ b.count \in 3..40
            /\ b.distance = 0 => b.count = 3
            /\ b.distance >= 500 => b.count = 40
            /\ 10 * b.count - 5 <= clamp(30, 400, b.distance)
            /\ clamp(30, 400, b.distance) < 10 * b.count + 5
            /\ \A d \in 0..b.distance : particleCount(d) <= b.count
            /\ BagCardinality(particles) >= b.count

\* a session pulled to distance 500 and released spawned 40 particles
C10_Witness ==
    /\ last.op = "release"
    /\ Len(last.spawned) = 1
    /\ last.spawned[1].distance = 500
    /\ last.spawned[1].count = 40

\* C11 (as stated, read with the projectile images loaded): in gesture mode
\* a sample with isDetected && isPinching received while Idle opens a drag
\* session whose origin is the cursor of the sample, and the state is Drawing
\* after the sample is processed.
C11_Original ==
    [][ ( /\ last'.op \in FrameOps
          /\ Confident(last'.sample)
          /\ ~state.isDrawing
          /\ assetsLoaded
          /\ imageKeys # {} )
        => ( /\ state'.isDrawing
             /\ state'.startX = last'.sample[1].cursor.x
             /\ state'.startY = last'.sample[1].cursor.y )
      ]_vars

\* the images are loaded, a frame delivered a pinch while Idle, and no
\* session is open after it
C11_Witness ==
    /\ last.op = "frame"
    /\ Confident(last.sample)
    /\ ~last.wasDrawing
    /\ assetsLoaded
    /\ imageKeys # {}
    /\ ~state.isDrawing
    /\ svg = 0

\* C12: updateDraw is idempotent: in every Drawing state and for every point
\* p, updateDraw(p) twice in a row leaves the same stored pull distance, line
\* end point and angle as updateDraw(p) once, and no updateDraw changes the
\* origin.
C12_UpdateIdempotent ==
    state.isDrawing =>
        \A p \in WholePulls(PullTargets) :
            \A once \in { updateDrawing(World, p[1], p[2]) } :
                /\ updateDrawing(once, p[1], p[2]) = once
                /\ once.state.startX = state.startX
                /\ once.state.startY = state.startY
                /\ once.state.currentLine[1].x1 = state.currentLine[1].x1
                /\ once.state.currentLine[1].y1 = state.currentLine[1].y1
                /\ once.state.isDrawing

\* a drag of length 130 away from an origin other than (0, 0), after which
\* the same drag again changes nothing
C12_Witness ==
    /\ last.op = "drag"
    /\ state.isDrawing
    /\ state.startX = 200
    /\ state.lastDistance = 130
    /\ last.point # None
    /\ updateDrawing(World, last.point[1][1], last.point[1][2]) = World

\* C13: visual pull mapping: with d the distance of the current point to the
\* origin, the line ends at the origin whenever d < 30 (d = 0 and d = 29
\* included) and otherwise at origin + (current - origin) * (d - 30) / d, so
\* d = 130 gives an end point 100 from the origin along the pull direction.
C13_PullMapping ==
    [][ (last'.op = "drag" /\ state.isDrawing)
        => \A d \in { Hypot(last'.point[1][1] - state.startX,
                            last'.point[1][2] - state.startY) } :
           LET dx == last'.point[1][1] - state.startX
               dy == last'.point[1][2] - state.startY
               line == state'.currentLine[1]
           IN  /\ line.x1 = state.startX /\ line.y1 = state.startY
               /\ d < 30 => (line.x2 = state.startX /\ line.y2 = state.startY)
               /\ d >= 30 => /\ (line.x2 - state.startX) * d = dx * (d - 30)
                             /\ (line.y2 - state.startY) * d = dy * (d - 30)
               /\ d = 130 => /\ Hypot(line.x2 - state.startX,
                                      line.y2 - state.startY) = 100
                             /\ Atan2(line.y2 - state.startY,
                                      line.x2 - state.startX) = Atan2(dy, dx)
               /\ state'.lastDistance = d
      ]_vars

\* a drag to distance 29 from the origin (200, 200): the line ends at the origin
C13_Witness ==
    /\ last.op = "drag"
    /\ state.isDrawing
    /\ state.lastDistance = 29
    /\ state.startX = 200
    /\ state.currentLine[1].x2 = 200
    /\ state.currentLine[1].y2 = 200

\* C14: a burst in flight is independent of the interaction that follows: no
\* step other than the completion of a particle (a press, a drag, a release
\* that ends a later session, a mode switch, the images loading, time passing)
\* removes a particle or changes one already spawned, and a completion removes
\* one particle.
C14_BurstIndependent ==
    [][ /\ (last'.op # "complete") =>
              \A b \in BagToSet(particles) :
                  CopiesIn(b, particles') >= CopiesIn(b, particles)
        /\ (last'.op = "complete") =>
              \E b \in BagToSet(particles) :
                  particles' = particles (-) SetToBag({ b })
      ]_vars

\* a later session was released while particles of an earlier burst were in
\* flight, in mouse mode after a visit to gesture mode
C14_Witness ==
    /\ last.op = "release"
    /\ Len(last.spawned) = 1
    /\ Cardinality(BagToSet(particles)) = 2
    /\ now > 0
    /\ CopiesIn(now, particles) = last.spawned[1].count
    /\ req # None

\* the spawn times of the particles whose flight can be followed to its end
EarlyBirths ==
    { b \in { k * 500 : k \in 0..(MaxFlight \div 500) } : b + FLIGHT_MIN_MS <= MaxFlight }

\* C15: every spawned particle is eventually destroyed, exactly once, when
\* its vertical motion completes, between 1 and 2 seconds after the spawn: a
\* completion removes one particle, of that age, and the particles spawned at
\* a time do not stay forever.
C15_ParticlesDestroyed ==
    /\ [][ (last'.op = "complete") =>
             /\ BagCardinality(particles') = BagCardinality(particles) - 1
             /\ \E b \in BagToSet(particles) :
                   /\ CopiesIn(b, particles') = CopiesIn(b, particles) - 1
                   /\ now >= b + FLIGHT_MIN_MS
                   /\ now < b + FLIGHT_MAX_MS
         ]_vars
    /\ [](\A b \in BagToSet(particles) : now < b + FLIGHT_MAX_MS)
    /\ \A b \in EarlyBirths : BagIn(b, particles) ~> ~BagIn(b, particles)

\* the last particle of a burst of 13 was destroyed
C15_Witness ==
    /\ last.op = "complete"
    /\ particles = EmptyBag
    /\ now >= FLIGHT_MIN_MS
    /\ ~state.isDrawing

\* C16: a tracking dropout shorter than 140 ms during a pinch does not
\* interrupt the drag: a frame without a detection, less than 140 ms after
\* the last real detection, which saw a pinch, with a session open, arms no
\* release timer and runs no endDraw; the session stays Drawing, unchanged,
\* with the last cursor; no release timer was pending before the frame either.
C16_ShortDropout ==
    [][ ( /\ last'.op \in FrameOps
          /\ last'.sample # None
          /\ last'.results = << >>
          /\ state.isDrawing
          /\ handStateRef.isPinching
          /\ now - handStateRef.lastDetectedAt < 140 )
        => ( /\ timers = {} /\ timers' = {}
             /\ releaseTimeoutRef' = 0
             /\ last'.spawned = << >>
             /\ state'.isDrawing
             /\ state'.startX = state.startX /\ state'.startY = state.startY
             /\ last'.sample[1].isDetected /\ last'.sample[1].isPinching
             /\ last'.sample[1].cursor = handStateRef.lastCursor
             /\ state' = updateDrawing(World, handStateRef.lastCursor.x,
                                       handStateRef.lastCursor.y).state
             /\ svg' = svg )
      ]_vars

\* a frame without a detection 20 to 120 ms after a pinch was last seen, in
\* a session pulled to distance 130, which is still open, with no timer
C16_Witness ==
    /\ last.op = "frame"
    /\ last.results = << >>
    /\ Confident(last.sample)
    /\ last.wasDrawing
    /\ state.isDrawing
    /\ state.lastDistance = 130
    /\ now - handStateRef.lastDetectedAt \in 20..120
    /\ handStateRef.lastDetectedAt > 0
    /\ timers = {}

\* C17 (as stated): while the camera or the model is being acquired in
\* gesture mode, and once the acquisition has failed, the drag session is
\* Idle and no step delivers a gesture sample to handleHandUpdate.
C17_Original ==
    ( isHandMode /\ (req # None \/ permissionError) )
        => ( /\ ~state.isDrawing
             /\ (last.op \in FrameOps => last.sample = None) )

\* an acquisition is pending or has failed, and the step just taken
\* delivered a sample to handleHandUpdate
C17_Witness ==
    /\ isHandMode
    /\ req # None \/ permissionError
    /\ last.op \in FrameOps
    /\ last.sample # None

\* C18 (as stated): the pinch state is discarded when gesture mode is
\* disabled: a frame sampled before any hand has been detected since gesture
\* mode was enabled yields the sample that the initial pinch state yields
\* (wasPinching = false, no earlier cursor, no earlier lastDetectedAt).
C18_Original ==
    ( last.op \in FrameOps /\ last.sample # None /\ last.first )
        => last.sample[1] = sampleFrame(InitialHandState, last.results).data

\* the first hand detected after gesture mode was enabled again is at a
\* distance inside the hysteresis band and is reported as a pinch
C18_Witness ==
    /\ last.op \in FrameOps
    /\ last.first
    /\ last.results # << >>
    /\ getDistance(last.results[1][4], last.results[1][8]) >= START_THRESHOLD
    /\ getDistance(last.results[1][4], last.results[1][8]) < RELEASE_THRESHOLD
    /\ last.sample[1].isPinching

\* C19: a frame whose detection contains a landmark set emits one sample with
\* isDetected = true, with isPinching = isPinching(landmarks, the stored
\* isPinching) and with the cursor computed from the landmarks, and stores
\* that pinch value, that cursor and lastDetectedAt = now in handStateRef.
C19_DetectedFrame ==
    [][ ( last'.op \in FrameOps /\ last'.results # << >> )
        => \A pinching \in { isPinching(last'.results[1], handStateRef.isPinching) } :
           \A cursor \in { getCursorPosition(last'.results[1], Viewport.innerWidth,
                                              Viewport.innerHeight) } :
               /\ last'.sample = Some([cursor |-> cursor, isPinching |-> pinching,
                                       isDetected |-> TRUE])
               /\ handStateRef' = [isPinching |-> pinching, lastCursor |-> cursor,
                                   lastDetectedAt |-> now]
      ]_vars

\* a frame, later than the first, detected a hand inside the hysteresis band
\* whose pinch was kept because the stored value was a pinch, and the pinch
\* state holds its cursor and the time of the frame
C19_Witness ==
    /\ last.op = "frame"
    /\ last.results # << >>
    /\ getDistance(last.results[1][4], last.results[1][8]) >= START_THRESHOLD
    /\ last.sample[1].isPinching
    /\ last.sample[1].isDetected
    /\ handStateRef.isPinching
    /\ handStateRef.lastCursor = last.sample[1].cursor
    /\ handStateRef.lastDetectedAt = now
    /\ now > 0

\* C20: when a non-decreasing or non-increasing sequence of thumb-index
\* distances is fed frame by frame through isPinching with the previous
\* result as wasPinching, the results change value at most once, and the
\* result does not change between two frames whose distances are both inside
\* [140, 180).
C20_NoOscillation ==
    LET t == last.trail
        n == Len(t)
        InBand(d) == d >= START_THRESHOLD /\ d < RELEASE_THRESHOLD
        NonDecreasing == \A i \in 1..(n - 1) : t[i][1] <= t[i + 1][1]
        NonIncreasing == \A i \in 1..(n - 1) : t[i][1] >= t[i + 1][1]
        Changes == { i \in 1..(n - 1) : t[i][2] # t[i + 1][2] }
    IN  /\ (NonDecreasing \/ NonIncreasing) => Cardinality(Changes) <= 1
        /\ \A i \in 1..(n - 1) :
               (InBand(t[i][1]) /\ InBand(t[i + 1][1])) => t[i][2] = t[i + 1][2]

\* the growing distances 139, 140, 179, 180: a pinch that is kept through
\* the band and released once at 180
C20_Witness ==
    last.trail = << <<139, TRUE>>, <<140, TRUE>>, <<179, TRUE>>, <<180, FALSE>> >>

\* C21: getCursorPosition maps the index tip (x, y), in thousandths of the
\* frame, to ((1 - x) * width, y * height) for every viewport size, and
\* returns (0, 0) for an absent or empty landmark list; isPinching returns
\* false for an absent or empty landmark list whatever wasPinching is.
C21_CursorMapping ==
    last.op = "cursor" =>
        LET landmarks == last.args[1]
            cursor == last.sample[1].cursor
        IN  IF landmarks = << >>
            THEN cursor = [x |-> 0, y |-> 0] /\ ~last.sample[1].isPinching
            ELSE /\ 1000 * cursor.x = (1000 - landmarks[8][1]) * last.args[3]
                 /\ 1000 * cursor.y = landmarks[8][2] * last.args[4]

\* an index tip at a quarter of the frame from the left and the top, in a
\* 1280 x 720 viewport: the cursor is at three quarters of the width
C21_Witness ==
    /\ last.op = "cursor"
    /\ last.args[1] # << >>
    /\ last.args[1][8] = <<250, 250>>
    /\ last.args[3] = 1280
    /\ last.args[4] = 720
    /\ last.sample[1].cursor = [x |-> 960, y |-> 180]

\* C22: the step that ends a session spawns its burst at the origin of the
\* session with the pull distance stored by the most recent updateDrawing of
\* that session (0 when it had none), and leaves isDrawing false,
\* lastDistance 0 and the line, circle and image references null. The stored
\* distance is 0 when the session opens, is the distance of the point of
\* each update, and is changed by nothing else.
C22_BurstAtRelease ==
    [][ /\ (~state.isDrawing /\ state'.isDrawing) => state'.lastDistance = 0
        /\ (state.isDrawing /\ state'.isDrawing) =>
               state'.lastDistance =
                   IF last'.op = "drag"
                   THEN Hypot(last'.point[1][1] - state.startX,
                              last'.point[1][2] - state.startY)
                   ELSE IF last'.op \in FrameOps /\ Confident(last'.sample)
                   THEN Hypot(last'.sample[1].cursor.x - state.startX,
                              last'.sample[1].cursor.y - state.startY)
                   ELSE state.lastDistance
        /\ (state.isDrawing /\ ~state'.isDrawing) =>
               /\ \A i \in 1..Len(last'.spawned) :
                      /\ last'.spawned[i].x = state.startX
                      /\ last'.spawned[i].y = state.startY
                      /\ last'.spawned[i].distance = state.lastDistance
               /\ Len(last'.spawned) = IF explosionKeys = {} THEN 0 ELSE 1
               /\ state'.lastDistance = 0
               /\ state'.currentLine = None
               /\ state'.circle = None
               /\ state'.startImage = None
               /\ svg' = 0
      ]_vars

\* a session opened at (0,0) and pulled to (78,104) was released: one burst
\* at (0,0) with distance 130, and the session is gone
C22_Witness ==
    /\ last.op = "release"
    /\ last.wasDrawing
    /\ Len(last.spawned) = 1
    /\ last.spawned[1].x = 0
    /\ last.spawned[1].y = 0
    /\ last.spawned[1].distance = 130
    /\ ~state.isDrawing
    /\ state.lastDistance = 0
    /\ state.currentLine = None
    /\ state.circle = None
    /\ state.startImage = None

\* C23: the release debounce is armed once per release and never extended:
\* a sample that is not detected-and-pinching leaves a pending release timer
\* and its due time as they are, and otherwise arms one timer, due 80 ms
\* later, when a session is open; the timer fires no earlier than its due
\* time and then the session is ended; at most one release timer is
\* outstanding, the one releaseTimeoutRef names.
C23_ArmedOnce ==
    [][ /\ ( last'.op \in FrameOps /\ last'.sample # None /\ ~Confident(last'.sample) )
            => IF releaseTimeoutRef # 0
               THEN timers' = timers /\ releaseTimeoutRef' = releaseTimeoutRef
               ELSE IF state.isDrawing
               THEN /\ releaseTimeoutRef' # 0
                    /\ timers' = { [id |-> releaseTimeoutRef',
                                    due |-> now + RELEASE_DEBOUNCE_MS] }
               ELSE timers' = {} /\ releaseTimeoutRef' = 0
        /\ last'.op = "timeout"
            => /\ last'.timerDue # 0
               /\ now >= last'.timerDue
               /\ ~state'.isDrawing
               /\ timers' = {}
               /\ releaseTimeoutRef' = 0
        /\ Cardinality(timers') <= 1
        /\ \A t \in timers' : t.id = releaseTimeoutRef'
      ]_vars

\* a release timer was pending when a later sample without a confident
\* pinch arrived, and it is still the only timer, with the same due time
C23_Witness ==
    /\ last.op = "frame"
    /\ last.sample # None
    /\ ~Confident(last.sample)
    /\ last.timerDue # 0
    /\ now > last.timerDue - RELEASE_DEBOUNCE_MS
    /\ timers = { [id |-> releaseTimeoutRef, due |-> last.timerDue] }
    /\ state.isDrawing

\* C24 (as stated): in every reachable state a pending release timer implies
\* that a drag session is open.
C24_Original == timers # {} => state.isDrawing

\* a pointer press opened a new session while a release timer, armed inside
\* an earlier session, is still pending: when it fires it ends this session
C24_Witness ==
    /\ last.op = "press"
    /\ ~last.wasDrawing
    /\ state.isDrawing
    /\ last.timerDue # 0
    /\ timers # {}

C26_Original ==
    [][ ( last'.op \in FrameOps /\ last'.sample # None /\ last'.results = << >> )
        => /\ handStateRef'.lastDetectedAt = handStateRef.lastDetectedAt
           /\ last'.sample[1].isDetected
                  => last.seen /\ now - handStateRef.lastDetectedAt < GRACE_MS
      ]_vars

\* no hand has been detected yet, and a frame without a detection reported
\* isDetected = true
C26_Witness ==
    /\ last.op \in FrameOps
    /\ last.first
    /\ last.results = << >>
    /\ last.sample # None
    /\ last.sample[1].isDetected
    /\ handStateRef = InitialHandState

\* C27: in every reachable state isDrawing is true iff the line, the anchor
\* circle and the projectile image references are all non-null (and iff any
\* of them is), and when isDrawing is false the stored lastDistance is 0.
C27_SessionFields ==
    /\ state.isDrawing <=> ( /\ state.currentLine # None
                             /\ state.circle # None
                             /\ state.startImage # None )
    /\ state.isDrawing <=> ( \/ state.currentLine # None
                             \/ state.circle # None
                             \/ state.startImage # None )
    /\ ~state.isDrawing => state.lastDistance = 0

\* a session is open and was dragged to distance 130: the three elements
\* exist and are the children of the <svg>
C27_Witness ==
    /\ last.op = "drag"
    /\ state.isDrawing
    /\ state.lastDistance = 130
    /\ state.currentLine # None
    /\ state.circle # None
    /\ state.startImage # None
    /\ svg = 3

\* C28: a gesture sample that is not detected-and-pinching never changes the
\* drag session: the origin, lastDistance and the elements of an open session
\* stay as they are and no burst is spawned, so the burst of the release
\* timer uses the distance left by the last confident sample; while Idle the
\* sample arms no timer.
C28_NonConfidentSample ==
    [][ /\ ( last'.op \in FrameOps /\ last'.sample # None /\ ~Confident(last'.sample) )
            => /\ state' = state
               /\ svg' = svg
               /\ last'.spawned = << >>
               /\ ~state.isDrawing
                      => timers' = timers /\ releaseTimeoutRef' = releaseTimeoutRef
        /\ ( last'.op = "timeout" /\ last'.spawned # << >> )
            => last'.spawned[1].distance = state.lastDistance
      ]_vars

\* a session pulled to distance 130 by a pinch received the sample of an
\* open hand at another place: the stored distance is still 130
C28_Witness ==
    /\ last.op = "frame"
    /\ last.results # << >>
    /\ ~last.sample[1].isPinching
    /\ state.isDrawing
    /\ state.lastDistance = 130
    /\ Hypot(last.sample[1].cursor.x - state.startX,
             last.sample[1].cursor.y - state.startY) = 0
    /\ timers # {}

\* C29: createHandLandmarker is single-flight: however the calls overlap, at
\* most one creation is pending at a time and at most one succeeds, every
\* call that returns returns the instance stored in handLandmarker, a
\* failed creation stores no instance and leaves no promise behind once the
\* call that made it has gone on, and a call made then starts a new
\* creation.
C29_SingleFlight ==
    [][ /\ Cardinality({ q \in creations' : q.status = "pending" }) <= 1
        /\ Cardinality({ q \in creations' : q.status = "fulfilled" }) <= 1
        /\ \A c \in calls' :
               c.pc = "fulfilled" => handLandmarker' # 0 /\ c.value = handLandmarker'
        /\ handLandmarker' # 0 <=> \E q \in creations' : q.status = "fulfilled"
        /\ (\A c \in calls' : c.pc # "await") => handLandmarkerPromise' = None
        /\ ( /\ last'.op = "createHandLandmarker"
             /\ handLandmarker = 0
             /\ \A c \in calls : c.pc \in { "fulfilled", "rejected" } )
               => /\ Cardinality(creations') = Cardinality(creations) + 1
                  /\ \E q \in creations' \ creations : q.status = "pending"
      ]_vars

\* a first creation failed for two overlapping calls, a later call started a
\* second creation, and two overlapping calls returned its instance
C29_Witness ==
    /\ \E q \in creations : q.status = "rejected"
    /\ Cardinality({ c \in calls : c.pc = "rejected" }) = 2
    /\ \E c, d \in calls :
           /\ c.pc = "fulfilled" /\ d.pc = "fulfilled"
           /\ c.p # 0 /\ d.p = c.p /\ c.id # d.id
           /\ c.value = handLandmarker /\ d.value = handLandmarker
    /\ handLandmarkerPromise = None

\* C30: at most one camera-access request is in flight: the flag
\* isRequestingPermissionRef is set exactly while a request is in flight; a
\* call of requestCameraAccess made while it is set (by the enable effect
\* after a mode switch or after the images loaded) leaves the request in
\* flight, the flag and the error as they are and asks for nothing; every
\* end of a request, success or failure, clears the flag; and a call made
\* while the flag is clear starts a request or fails at once.
C30_OneCameraRequest ==
    [][ /\ isRequestingPermissionRef' <=> req' # None
        /\ ( /\ isRequestingPermissionRef
             /\ \/ last'.op \in { "handMode", "requestCamera" }
                \/ last'.op = "assets" /\ isHandMode )
               => /\ req' = req
                  /\ isRequestingPermissionRef'
                  /\ permissionError' = permissionError
        /\ last'.op \in { "modelFailed", "cameraReady", "cameraFailed" }
               => /\ req # None
                  /\ req' = None
                  /\ ~isRequestingPermissionRef'
        /\ ( /\ ~isRequestingPermissionRef
             /\ \/ last'.op \in { "handMode", "requestCamera" }
                \/ last'.op = "assets" /\ isHandMode )
               => \/ req' # None /\ req'[1].pc = "model" /\ ~permissionError'
                  \/ req' = None /\ permissionError'
      ]_vars

\* hand mode was enabled while the request of an earlier enabling was
\* waiting for the camera: that request is still the one in flight
C30_Witness ==
    /\ last.op = "handMode"
    /\ isRequestingPermissionRef
    /\ req # None
    /\ req[1].pc = "camera"

\* C31: at most one frame-sampling loop is scheduled at any time, whatever
\* loadeddata events, enables and disables happen: at most one
\* animation-frame callback is pending, it is the one requestRef names, none
\* is pending in mouse mode, and a <video> carries at most one loadeddata
\* listener, so a frame or a loadeddata event delivers one sample.
C31_OneSamplingLoop ==
    /\ Cardinality(rafs) <= 1
    /\ \A r \in rafs : r.id = requestRef
    /\ ~isHandMode => rafs = {}
    /\ videoRef # None => Cardinality(videoRef[1].listeners) <= 1

\* the loadeddata event of an unmounted <video> arrived while the loop of
\* the mounted one was running: one callback is pending after it
C31_Witness ==
    /\ last.op = "detachedLoadeddata"
    /\ last.sample # None
    /\ HasFrames(videoRef)
    /\ Cardinality(rafs) = 1

\* C32: while the projectile images have not finished loading, or when none
\* loaded, a pointer press or a detected-and-pinching sample received while
\* Idle changes nothing: the state stays Idle, the origin and lastDistance
\* are as before, no element is created, and no timer or burst results.
C32_NoAssetsNoSession ==
    [][ ( /\ \/ last'.op = "press"
             \/ last'.op \in FrameOps /\ Confident(last'.sample)
          /\ ~state.isDrawing
          /\ ~assetsLoaded \/ imageKeys = {} )
        => /\ state' = state
           /\ svg' = 0
           /\ timers' = timers
           /\ releaseTimeoutRef' = releaseTimeoutRef
           /\ last'.spawned = << >>
      ]_vars

\* a frame delivered a pinch before the images had loaded, and the state is
\* the initial Idle state
C32_Witness ==
    /\ last.op = "frame"
    /\ Confident(last.sample)
    /\ ~assetsLoaded
    /\ state = IdleState
    /\ svg = 0


====
